---- MODULE Spec2Model ----
(***************************************************************************)
(* Model of the price cache of luxfi/pricing (src/main.go): PriceCache,    *)
(* its RWMutex, GetPrice, GetMultiplePrices and the two CoinGecko          *)
(* fetchers.  Time is counted in minutes.  Each request is a goroutine     *)
(* that runs one call at a time; the provider's answer to an upstream call *)
(* is an input chosen when the call returns.                               *)
(***************************************************************************)
EXTENDS Integers, Sequences, FiniteSets, TLC

\* ------------------------------------------------------------ constants

\* cacheTTL = 1 * time.Hour, in minutes.
cacheTTL == 60

\* http.StatusOK
StatusOK == 200

\* ---------------------------------------------------------------- bounds

\* Number of concurrent request goroutines.
NumReqs == 2

\* Number of times the clock advances in a behaviour.
MaxTicks == 2

\* Number of calls started in a behaviour.
MaxCalls == 3

\* Number of calls started in a behaviour of SpecLive.
MaxLiveCalls == 2

\* Number of calls started in a behaviour of SpecAny.
MaxAnyCalls == 2

\* Number of calls started in a behaviour of SpecBatch.
MaxBatchCalls == 2

\* Number of calls started in a behaviour of SpecKeys.
MaxKeyCalls == 2

\* Longest list of records the provider answers the listing request with.
MaxAssets == 3

\* Longest tokenIDs list handed to GetMultiplePrices (SpecBatch hands lists
\* of distinct identifiers of any length).
MaxBatch == 2

\* Longest record list in a provider response.
MaxRecords == 2

\* Number of distinct market quotes the provider may report for a token.
NumQuotes == 2

\* ----------------------------------------------------------------- inputs

Reqs == 1..NumReqs

\* Token identifiers and currencies the HTTP layer hands to the cache: all
\* of them, those of the sequential specification, and the one the
\* concurrent goroutines contend for.
TokenIDs == {"btc", "eth", "sol"}

PairIDs == {"btc", "eth"}

HotIDs == {"btc"}

Currencies == {"usd"}

\* The clock advances by one minute or by one minute less than the TTL.
TickSteps == {1, cacheTTL - 1}

\* Sequences over S of length lo..hi.
SeqsOf(S, lo, hi) == UNION {[1..n -> S] : n \in lo..hi}

Range(s) == {s[k] : k \in 1..Len(s)}

\* Lists in which no identifier occurs twice.
DistinctLists(S) ==
    {l \in SeqsOf(S, 1, Cardinality(S)) : \A a, b \in 1..Len(l) : a # b => l[a] # l[b]}

\* ------------------------------------------------------------- data types

\* The fields of CoinGeckoPrice that the cache reads.
CoinGeckoPrice(id, q) ==
    [ID |-> id, Symbol |-> id \o "-sym", Name |-> id \o "-name",
     CurrentPrice |-> 10 * q, MarketCap |-> 1000 * q, TotalVolume |-> 100 * q,
     PriceChangePercentage24h |-> q]

\* The zero value of CoinGeckoPrice.
ZeroPrice ==
    [ID |-> "", Symbol |-> "", Name |-> "",
     CurrentPrice |-> 0, MarketCap |-> 0, TotalVolume |-> 0,
     PriceChangePercentage24h |-> 0]

\* The zero value of CachedPrice (what a nil map lookup stands for).
NilCachedPrice ==
    [Price |-> 0, Currency |-> "", UpdatedAt |-> 0,
     Change24h |-> 0, MarketCap |-> 0, Volume24h |-> 0]

\* The zero value of PriceResponse.
ZeroResponse ==
    [ID |-> "", Symbol |-> "", Name |-> "", Price |-> 0, Currency |-> "",
     Change24h |-> 0, MarketCap |-> 0, Volume24h |-> 0, UpdatedAt |-> 0,
     Cached |-> FALSE]

\* make(map[string]*CachedPrice) / make(map[string]*PriceResponse)
EmptyMap == [k \in {} |-> NilCachedPrice]

\* ---------------------------------------------------------- provider side

\* The records the provider may hold for the identifiers of a query.
RecordsOf(ids) == {CoinGeckoPrice(id, q) : id \in Range(ids), q \in 1..NumQuotes}

\* No identifier occurs twice in a record list.
NoRepeat(l) == \A a, b \in 1..Len(l) : a # b => l[a].ID # l[b].ID

\* What client.Do and the response body give a fetcher: a transport error
\* (also a cancelled or timed-out context), or a status, and a body that
\* decodes to a record list or does not decode.
TransportFailure ==
    [doErr |-> TRUE, status |-> 0, decodable |-> FALSE, records |-> <<>>]

HTTPResponse(s, d, l) ==
    [doErr |-> FALSE, status |-> s, decodable |-> d, records |-> l]

\* The answers to a query for ids of a provider that reports each requested
\* identifier at most once, in any order, and no other identifier.
ProviderAnswers(ids) ==
    {TransportFailure, HTTPResponse(StatusOK, FALSE, <<>>), HTTPResponse(500, TRUE, <<>>)}
    \cup {HTTPResponse(StatusOK, TRUE, l) :
            l \in {x \in SeqsOf(RecordsOf(ids), 0, MaxRecords) : NoRepeat(x)}}
    \cup {HTTPResponse(201, TRUE, l) : l \in SeqsOf(RecordsOf(ids), 0, 1)}

\* fetchFromCoinGecko: the error, or the first record.
fetchFromCoinGecko(h) ==
    IF h.doErr THEN [err |-> "transport", price |-> ZeroPrice]
    ELSE IF h.status # StatusOK THEN [err |-> "status", price |-> ZeroPrice]
    ELSE IF ~h.decodable THEN [err |-> "decode", price |-> ZeroPrice]
    ELSE IF Len(h.records) = 0 THEN [err |-> "notfound", price |-> ZeroPrice]
    ELSE [err |-> "", price |-> h.records[1]]

\* fetchMultipleFromCoinGecko: the error, or the whole record list.
fetchMultipleFromCoinGecko(h) ==
    IF h.doErr THEN [err |-> "transport", prices |-> <<>>]
    ELSE IF h.status # StatusOK THEN [err |-> "status", prices |-> <<>>]
    ELSE IF ~h.decodable THEN [err |-> "decode", prices |-> <<>>]
    ELSE [err |-> "", prices |-> h.records]

\* ------------------------------------------------------------ cache side

\* fmt.Sprintf("%s:%s", tokenID, currency)
CacheKey(tokenID, currency) == tokenID \o ":" \o currency

\* A freshness test that never passes: every entry is fetched again.
IsFreshNever(exists, cached, t) == FALSE

\* A freshness test off by one: an entry exactly one TTL old still counts as fresh.
IsFreshInclusive(exists, cached, t) == exists /\ t - cached.UpdatedAt <= cacheTTL

\* exists && time.Since(cached.UpdatedAt) < cacheTTL
IsFresh(exists, cached, t) == exists /\ t - cached.UpdatedAt < cacheTTL

\* The PriceResponse built from a cache entry (fresh hit or stale fallback).
CachedResponse(tokenID, cached) ==
    [ZeroResponse EXCEPT
        !.ID = tokenID, !.Price = cached.Price, !.Currency = cached.Currency,
        !.Change24h = cached.Change24h, !.MarketCap = cached.MarketCap,
        !.Volume24h = cached.Volume24h, !.UpdatedAt = cached.UpdatedAt,
        !.Cached = TRUE]

\* An entry built with two fields confused: market cap and volume change places.
NewCachedPriceSwapped(price, currency, t) ==
    [Price |-> price.CurrentPrice, Currency |-> currency, UpdatedAt |-> t,
     Change24h |-> price.PriceChangePercentage24h,
     MarketCap |-> price.TotalVolume, Volume24h |-> price.MarketCap]

\* The CachedPrice built from a fetched record at time t.
NewCachedPrice(price, currency, t) ==
    [Price |-> price.CurrentPrice, Currency |-> currency, UpdatedAt |-> t,
     Change24h |-> price.PriceChangePercentage24h,
     MarketCap |-> price.MarketCap, Volume24h |-> price.TotalVolume]

\* A stamp taken when the fetch returned, before the lock is asked for.
StampAtFetch(t, fetchedAt) == fetchedAt

\* UpdatedAt: time.Now(), evaluated while the write lock is held.
StampTime(t, fetchedAt) == t

\* The PriceResponse built from a fetched record at time t.
FetchedResponse(id, price, currency, t) ==
    [ID |-> id, Symbol |-> price.Symbol, Name |-> price.Name,
     Price |-> price.CurrentPrice, Currency |-> currency,
     Change24h |-> price.PriceChangePercentage24h,
     MarketCap |-> price.MarketCap, Volume24h |-> price.TotalVolume,
     UpdatedAt |-> t, Cached |-> FALSE]

\* An error branch without fallback: the error is returned even when a stale entry exists.
OnFetchErrorNoFallback(tokenID, cached, exists, err) ==
    [nil |-> TRUE, val |-> ZeroResponse, err |-> err]

\* What GetPrice returns when the fetch failed: the stale entry if one was
\* read, the error otherwise.
OnFetchError(tokenID, cached, exists, err) ==
    IF exists
    THEN [nil |-> FALSE, val |-> CachedResponse(tokenID, cached), err |-> ""]
    ELSE [nil |-> TRUE, val |-> ZeroResponse, err |-> err]

\* An error test that never fires: the error of the fetcher is ignored.
FetchNeverFailed(err) == FALSE

\* if err != nil
FetchFailed(err) == err # ""

\* A store that makes the map anew around the entry.
MapPutReset(m, key, entry) == [k \in {key} |-> entry]

\* A store that keeps an entry already held under the key.
MapPutIfAbsent(m, key, entry) ==
    [k \in DOMAIN m \cup {key} |-> IF k \in DOMAIN m THEN m[k] ELSE entry]

\* A store that updates an entry already held under the key in place, the
\* price and the time only.
MapPutInPlace(m, key, entry) ==
    [k \in DOMAIN m \cup {key} |->
        IF k # key THEN m[k]
        ELSE IF k \in DOMAIN m
             THEN [m[k] EXCEPT !.Price = entry.Price, !.UpdatedAt = entry.UpdatedAt]
             ELSE entry]

\* m[key] = entry
MapPut(m, key, entry) ==
    [k \in DOMAIN m \cup {key} |-> IF k = key THEN entry ELSE m[k]]

\* cached, exists := m[key]
MapGet(m, key) == IF key \in DOMAIN m THEN m[key] ELSE NilCachedPrice

\* sync.RWMutex: the goroutines holding the read lock, and the one holding
\* the write lock (0: none).
CanRLock(m) == m.writer = 0

RLock(m, r) == [m EXCEPT !.readers = @ \cup {r}]

\* A read lock that is never given back.
RUnlockNoop(m, r) == m

RUnlock(m, r) == [m EXCEPT !.readers = @ \ {r}]

CanLock(m) == m.writer = 0 /\ m.readers = {}

Lock(m, r) == [m EXCEPT !.writer = r]

\* A write lock that is never given back.
UnlockNoop(m, r) == m

Unlock(m, r) == [m EXCEPT !.writer = 0]

\* ------------------------------------------------------------------ state

VARIABLES
    prices,     \* pc.prices: cache key -> CachedPrice
    mu,         \* pc.mu
    now,        \* the clock, in minutes
    ticks,      \* how often the clock advanced
    started,    \* how many calls were started
    lastRec,    \* history: cache key -> the record of the last write-back
    req,        \* per goroutine: position and locals of its call
    scoring,    \* one evaluation of calculateScore: arguments and results
    markets,    \* one handleMarkets request: provider list and response
    upstream    \* one call of a fetcher: the provider's answer and the result

vars ==
    <<prices, mu, now, ticks, started, lastRec, req, scoring, markets, upstream>>

\* The variables of the price cache, and those of scoring and the listing.
cvars == <<prices, mu, now, ticks, started, lastRec, req>>

svars == <<scoring, markets, upstream>>

\* The (response, error) pair a call returns.
Result(v, e) == [nil |-> FALSE, val |-> v, err |-> e]

\* type ScoreData
ZeroScoreData ==
    [MarketScore |-> 0, StakingScore |-> 0, SecurityScore |-> 0,
     AdoptionScore |-> 0, TechScore |-> 0]

\* No calculateScore evaluation under way.
NoScoring == [pc |-> "none"]

\* No handleMarkets request under way.
IdleMarkets == [pc |-> "idle"]

\* No fetcher call looked at on its own.
NoUpstream == [pc |-> "none"]

\* A goroutine before its first call.  The fields after ret are the history
\* of the call: the time of GetPrice's freshness test, the time the fetcher
\* returned records to write back, the record behind the
\* entry it read, the upstream calls issued, the fetcher's error, the cache
\* keys written, and the identifiers GetMultiplePrices found fresh, stale
\* and absent by their age at the test.
IdleReq ==
    [pc |-> "idle", op |-> "none",
     tokenID |-> "", currency |-> "", tokenIDs |-> <<>>, i |-> 0,
     cached |-> NilCachedPrice, exists |-> FALSE,
     price |-> ZeroPrice, fetched |-> <<>>, j |-> 0, toFetch |-> <<>>,
     multi |-> EmptyMap,
     ret |-> [nil |-> TRUE, val |-> ZeroResponse, err |-> ""],
     checkedAt |-> 0, fetchedAt |-> 0, srcRec |-> ZeroPrice, calls |-> <<>>,
     fetchErr |-> "",
     wrote |-> {}, freshIDs |-> {}, staleIDs |-> {}, absentIDs |-> {}]

Init ==
    /\ prices = EmptyMap
    /\ mu = [readers |-> {}, writer |-> 0]
    /\ now = 0
    /\ ticks = 0
    /\ started = 0
    /\ lastRec = EmptyMap
    /\ req = [r \in Reqs |-> IdleReq]
    /\ scoring = NoScoring
    /\ markets = IdleMarkets
    /\ upstream = NoUpstream

\* A goroutine that is free to take a call: before its first, or after the
\* previous one returned.
Free(r) == req[r].pc \in {"idle", "done"}

\* The record of the last write-back under key (history).
LastRec(key) == IF key \in DOMAIN lastRec THEN lastRec[key] ELSE ZeroPrice

HistPut(m, key, rec) ==
    [k \in DOMAIN m \cup {key} |-> IF k = key THEN rec ELSE m[k]]

\* ---------------------------------------------------------------- GetPrice

\* GetPrice is called: the cache key is built, the read lock is next.
GPStart(r, id, cur) ==
    /\ Free(r)
    /\ started' = started + 1
    /\ req' = [req EXCEPT ![r] = [IdleReq EXCEPT
                 !.pc = "gp_rlock", !.op = "GetPrice",
                 !.tokenID = id, !.currency = cur]]
    /\ UNCHANGED <<svars, prices, mu, now, ticks, lastRec>>

\* pc.mu.RLock(); cached, exists := pc.prices[cacheKey]
GPRLock(r) ==
    LET key == CacheKey(req[r].tokenID, req[r].currency) IN
    /\ req[r].pc = "gp_rlock"
    /\ CanRLock(mu)
    /\ mu' = RLock(mu, r)
    /\ req' = [req EXCEPT ![r] = [@ EXCEPT
                 !.pc = "gp_runlock",
                 !.cached = MapGet(prices, key),
                 !.exists = key \in DOMAIN prices,
                 !.srcRec = LastRec(key)]]
    /\ UNCHANGED <<svars, prices, now, ticks, started, lastRec>>

\* pc.mu.RUnlock()
GPRUnlock(r) ==
    /\ req[r].pc = "gp_runlock"
    /\ mu' = RUnlock(mu, r)
    /\ req' = [req EXCEPT ![r].pc = "gp_check"]
    /\ UNCHANGED <<svars, prices, now, ticks, started, lastRec>>

\* The freshness test: a fresh entry is returned, otherwise the upstream
\* call is issued.
GPCheck(r) ==
    /\ req[r].pc = "gp_check"
    /\ IF IsFresh(req[r].exists, req[r].cached, now)
       THEN req' = [req EXCEPT ![r] = [@ EXCEPT
                 !.pc = "done", !.checkedAt = now,
                 !.ret = Result(CachedResponse(req[r].tokenID, req[r].cached), "")]]
       ELSE req' = [req EXCEPT ![r] = [@ EXCEPT
                 !.pc = "gp_fetch", !.checkedAt = now,
                 !.calls = Append(@, [fn |-> "fetchFromCoinGecko",
                                      ids |-> <<req[r].tokenID>>,
                                      currency |-> req[r].currency])]]
    /\ UNCHANGED <<svars, prices, mu, now, ticks, started, lastRec>>

\* fetchFromCoinGecko returns with the provider's answer h.
GPFetchReturn(r, h) ==
    LET res == fetchFromCoinGecko(h) IN
    /\ req[r].pc = "gp_fetch"
    /\ IF FetchFailed(res.err)
       THEN req' = [req EXCEPT ![r] = [@ EXCEPT
                 !.pc = "done", !.fetchErr = res.err,
                 !.ret = OnFetchError(req[r].tokenID, req[r].cached,
                                      req[r].exists, res.err)]]
       ELSE req' = [req EXCEPT ![r] = [@ EXCEPT
                 !.pc = "gp_lock", !.fetchErr = res.err, !.fetchedAt = now,
                 !.price = res.price]]
    /\ UNCHANGED <<svars, prices, mu, now, ticks, started, lastRec>>

\* pc.mu.Lock(); pc.prices[cacheKey] = &CachedPrice{...}
GPLock(r) ==
    LET key == CacheKey(req[r].tokenID, req[r].currency) IN
    /\ req[r].pc = "gp_lock"
    /\ CanLock(mu)
    /\ mu' = Lock(mu, r)
    /\ prices' = MapPut(prices, key,
                        NewCachedPrice(req[r].price, req[r].currency,
                                       StampTime(now, req[r].fetchedAt)))
    /\ lastRec' = HistPut(lastRec, key, req[r].price)
    /\ req' = [req EXCEPT ![r] = [@ EXCEPT
                 !.pc = "gp_unlock", !.wrote = @ \cup {key}]]
    /\ UNCHANGED <<svars, now, ticks, started>>

\* pc.mu.Unlock(); return &PriceResponse{...}, nil
GPUnlock(r) ==
    /\ req[r].pc = "gp_unlock"
    /\ mu' = Unlock(mu, r)
    /\ req' = [req EXCEPT ![r] = [@ EXCEPT
                 !.pc = "done",
                 !.ret = Result(FetchedResponse(req[r].tokenID, req[r].price,
                                                req[r].currency, now), "")]]
    /\ UNCHANGED <<svars, prices, now, ticks, started, lastRec>>

\* ------------------------------------------------------- GetMultiplePrices

\* A batch call that is issued whatever the needs-fetch list holds.
NeedsFetchAlways(toFetch) == TRUE

\* len(toFetch) > 0
NeedsFetch(toFetch) == Len(toFetch) > 0

\* A response map that is made anew for every record put into it.
RespPutOnly(m, id, resp) == [k \in {id} |-> resp]

\* response.Prices[id] = resp
RespPut(m, id, resp) ==
    [k \in DOMAIN m \cup {id} |-> IF k = id THEN resp ELSE m[k]]

\* GetMultiplePrices is called: the response map is made, the loop over
\* tokenIDs starts.
GMStart(r, ids, cur) ==
    /\ Free(r)
    /\ started' = started + 1
    /\ req' = [req EXCEPT ![r] = [IdleReq EXCEPT
                 !.pc = "gm_rlock", !.op = "GetMultiplePrices",
                 !.tokenIDs = ids, !.currency = cur, !.i = 1]]
    /\ UNCHANGED <<svars, prices, mu, now, ticks, lastRec>>

\* pc.mu.RLock(); cached, exists := pc.prices[cacheKey] for tokenIDs[i]
GMRLock(r) ==
    LET key == CacheKey(req[r].tokenIDs[req[r].i], req[r].currency) IN
    /\ req[r].pc = "gm_rlock"
    /\ CanRLock(mu)
    /\ mu' = RLock(mu, r)
    /\ req' = [req EXCEPT ![r] = [@ EXCEPT
                 !.pc = "gm_runlock",
                 !.cached = MapGet(prices, key),
                 !.exists = key \in DOMAIN prices]]
    /\ UNCHANGED <<svars, prices, now, ticks, started, lastRec>>

\* pc.mu.RUnlock()
GMRUnlock(r) ==
    /\ req[r].pc = "gm_runlock"
    /\ mu' = RUnlock(mu, r)
    /\ req' = [req EXCEPT ![r].pc = "gm_check"]
    /\ UNCHANGED <<svars, prices, now, ticks, started, lastRec>>

\* A needs-fetch list that takes an identifier once only.
AppendIfNew(toFetch, id) ==
    IF id \in Range(toFetch) THEN toFetch ELSE Append(toFetch, id)

\* toFetch = append(toFetch, id)
AppendToFetch(toFetch, id) == Append(toFetch, id)

\* The freshness test for tokenIDs[i]: a fresh entry goes into the response,
\* any other identifier into toFetch.  After the last identifier the batch
\* call is issued if toFetch is not empty; otherwise the call returns.
GMCheck(r) ==
    LET id == req[r].tokenIDs[req[r].i]
        fresh == IsFresh(req[r].exists, req[r].cached, now)
        multi2 == IF fresh
                  THEN RespPut(req[r].multi, id, CachedResponse(id, req[r].cached))
                  ELSE req[r].multi
        toFetch2 == IF fresh THEN req[r].toFetch
                    ELSE AppendToFetch(req[r].toFetch, id)
        last == req[r].i = Len(req[r].tokenIDs)
        young == now - req[r].cached.UpdatedAt < cacheTTL
    IN
    /\ req[r].pc = "gm_check"
    /\ req' = [req EXCEPT ![r] = [@ EXCEPT
                 !.multi = multi2, !.toFetch = toFetch2,
                 !.i = @ + 1,
                 !.pc = IF ~last THEN "gm_rlock"
                        ELSE IF NeedsFetch(toFetch2) THEN "gm_fetch" ELSE "done",
                 !.ret = IF last /\ ~NeedsFetch(toFetch2) THEN Result(ZeroResponse, "") ELSE @,
                 !.calls = IF last /\ NeedsFetch(toFetch2)
                           THEN Append(@, [fn |-> "fetchMultipleFromCoinGecko",
                                           ids |-> toFetch2,
                                           currency |-> req[r].currency])
                           ELSE @,
                 !.freshIDs = IF req[r].exists /\ young THEN @ \cup {id} ELSE @,
                 !.staleIDs = IF req[r].exists /\ ~young THEN @ \cup {id} ELSE @,
                 !.absentIDs = IF ~req[r].exists THEN @ \cup {id} ELSE @]]
    /\ UNCHANGED <<svars, prices, mu, now, ticks, started, lastRec>>

\* A batch path that gives the fetcher's error to its caller.
OnBatchErrorPropagates(multi, err) == [multi |-> EmptyMap, err |-> err]

\* The batch fetch failed: log.Printf, the response stays as it is and the
\* error is dropped.
OnBatchError(multi, err) == [multi |-> multi, err |-> ""]

\* fetchMultipleFromCoinGecko returns with the provider's answer h: an error
\* is logged, a record list is written back record by record.
GMFetchReturn(r, h) ==
    LET res == fetchMultipleFromCoinGecko(h)
        failed == FetchFailed(res.err)
        over == failed \/ Len(res.prices) = 0
        out == IF failed THEN OnBatchError(req[r].multi, res.err)
                         ELSE [multi |-> req[r].multi, err |-> ""]
    IN
    /\ req[r].pc = "gm_fetch"
    /\ req' = [req EXCEPT ![r] = [@ EXCEPT
                 !.fetchErr = res.err, !.fetchedAt = IF over THEN @ ELSE now,
                 !.fetched = res.prices, !.j = 1,
                 !.multi = out.multi,
                 !.pc = IF over THEN "done" ELSE "gm_lock",
                 !.ret = IF over THEN Result(ZeroResponse, out.err) ELSE @]]
    /\ UNCHANGED <<svars, prices, mu, now, ticks, started, lastRec>>

\* pc.mu.Lock(); pc.prices[cacheKey] = &CachedPrice{...} for prices[j]
GMLock(r) ==
    LET p == req[r].fetched[req[r].j]
        key == CacheKey(p.ID, req[r].currency)
    IN
    /\ req[r].pc = "gm_lock"
    /\ CanLock(mu)
    /\ mu' = Lock(mu, r)
    /\ prices' = MapPut(prices, key,
                        NewCachedPrice(p, req[r].currency,
                                       StampTime(now, req[r].fetchedAt)))
    /\ lastRec' = HistPut(lastRec, key, p)
    /\ req' = [req EXCEPT ![r] = [@ EXCEPT
                 !.pc = "gm_unlock", !.wrote = @ \cup {key}]]
    /\ UNCHANGED <<svars, now, ticks, started>>

\* pc.mu.Unlock(); response.Prices[p.ID] = &PriceResponse{...}; the next
\* record, or return response, nil
GMUnlock(r) ==
    LET p == req[r].fetched[req[r].j]
        last == req[r].j = Len(req[r].fetched)
    IN
    /\ req[r].pc = "gm_unlock"
    /\ mu' = Unlock(mu, r)
    /\ req' = [req EXCEPT ![r] = [@ EXCEPT
                 !.multi = RespPut(@, p.ID,
                                   FetchedResponse(p.ID, p, req[r].currency, now)),
                 !.j = @ + 1,
                 !.pc = IF last THEN "done" ELSE "gm_lock",
                 !.ret = IF last THEN Result(ZeroResponse, "") ELSE @]]
    /\ UNCHANGED <<svars, prices, now, ticks, started, lastRec>>

\* ------------------------------------------------------ the environment

\* Time passes.
Tick(d) ==
    /\ ticks < MaxTicks
    /\ now' = now + d
    /\ ticks' = ticks + 1
    /\ UNCHANGED <<svars, prices, mu, started, lastRec, req>>

\* The steps of GetPrice calls by goroutines R for identifiers IDS and
\* currencies CURS, at most budget calls being started in all.
GPSteps(R, IDS, CURS, budget) ==
    \/ \E r \in R, id \in IDS, cur \in CURS : started < budget /\ GPStart(r, id, cur)
    \/ \E r \in R : GPRLock(r)
    \/ \E r \in R : GPRUnlock(r)
    \/ \E r \in R : GPCheck(r)
    \/ \E r \in R : \E h \in ProviderAnswers(<<req[r].tokenID>>) : GPFetchReturn(r, h)
    \/ \E r \in R : GPLock(r)
    \/ \E r \in R : GPUnlock(r)

\* The steps of GetMultiplePrices calls by goroutines R for lists LISTS.
GMSteps(R, LISTS, CURS, budget) ==
    \/ \E r \in R, ids \in LISTS, cur \in CURS : started < budget /\ GMStart(r, ids, cur)
    \/ \E r \in R : GMRLock(r)
    \/ \E r \in R : GMRUnlock(r)
    \/ \E r \in R : GMCheck(r)
    \/ \E r \in R : \E h \in ProviderAnswers(req[r].toFetch) : GMFetchReturn(r, h)
    \/ \E r \in R : GMLock(r)
    \/ \E r \in R : GMUnlock(r)

\* Concurrent goroutines contending for one identifier.
Next ==
    \/ GPSteps(Reqs, HotIDs, Currencies, MaxCalls)
    \/ GMSteps(Reqs, SeqsOf(HotIDs, 1, MaxBatch), Currencies, MaxCalls)
    \/ \E d \in TickSteps : Tick(d)

Spec == Init /\ [][Next]_vars

\* The steps of goroutine r that wait for nothing but the scheduler, the
\* return of the upstream call among them.
RunStep(r) ==
    \/ GPRUnlock(r) \/ GPCheck(r) \/ GPUnlock(r)
    \/ GMRUnlock(r) \/ GMCheck(r) \/ GMUnlock(r)
    \/ \E h \in ProviderAnswers(<<req[r].tokenID>>) : GPFetchReturn(r, h)
    \/ \E h \in ProviderAnswers(req[r].toFetch) : GMFetchReturn(r, h)

\* The steps of goroutine r that wait for the mutex.
LockStep(r) == GPRLock(r) \/ GPLock(r) \/ GMRLock(r) \/ GMLock(r)

\* Concurrent goroutines as in Next, with fewer calls, lists of one
\* identifier and a clock that advances by one TTL.
NextLive ==
    \/ GPSteps(Reqs, HotIDs, Currencies, MaxLiveCalls)
    \/ GMSteps(Reqs, SeqsOf(HotIDs, 1, 1), Currencies, MaxLiveCalls)
    \/ Tick(cacheTTL)

\* The scheduler runs every goroutine that can run, every upstream call
\* returns (the client has a timeout), and sync.RWMutex gives the lock to a
\* goroutine that keeps asking for it.
SpecLive ==
    /\ Init /\ [][NextLive]_vars
    /\ \A r \in Reqs : WF_vars(RunStep(r)) /\ SF_vars(LockStep(r))

\* One goroutine, two identifiers, lists with repetitions.
NextSeq ==
    \/ GPSteps({1}, PairIDs, Currencies, MaxCalls)
    \/ GMSteps({1}, SeqsOf(PairIDs, 1, MaxBatch), Currencies, MaxCalls)
    \/ \E d \in TickSteps : Tick(d)

SpecSeq == Init /\ [][NextSeq]_vars

\* One goroutine, three identifiers, batch calls over lists of distinct
\* identifiers, the clock advancing by the TTL.
NextBatch ==
    \/ GMSteps({1}, DistinctLists(TokenIDs), Currencies, MaxBatchCalls)
    \/ Tick(cacheTTL)

SpecBatch == Init /\ [][NextBatch]_vars

\* One goroutine, identifiers and currencies that hold the separator of the
\* cache key or differ in letter case only.
KeyIDs == {"a", "a:b", "A"}

KeyCurrencies == {"usd", "b:usd"}

NextKeys ==
    \/ GPSteps({1}, KeyIDs, KeyCurrencies, MaxKeyCalls)
    \/ GMSteps({1}, SeqsOf(KeyIDs, 1, 1), KeyCurrencies, MaxKeyCalls)
    \/ Tick(cacheTTL)

SpecKeys == Init /\ [][NextKeys]_vars

\* What a provider can answer that is not held to the query: no response, or
\* any list of records, for identifiers asked for or not, repeated or not.
AnyAnswers ==
    {TransportFailure}
    \cup {HTTPResponse(StatusOK, TRUE, l) :
            l \in SeqsOf({CoinGeckoPrice(id, q) : id \in PairIDs,
                                                  q \in 1..NumQuotes},
                         0, MaxRecords)}

\* One goroutine, batch calls over two identifiers, a provider that answers
\* with any records.
NextAny ==
    \/ \E ids \in SeqsOf(PairIDs, 1, MaxBatch), cur \in Currencies :
          started < MaxAnyCalls /\ GMStart(1, ids, cur)
    \/ GMRLock(1)
    \/ GMRUnlock(1)
    \/ GMCheck(1)
    \/ \E h \in AnyAnswers : GMFetchReturn(1, h)
    \/ GMLock(1)
    \/ GMUnlock(1)
    \/ Tick(cacheTTL)

SpecAny == Init /\ [][NextAny]_vars

\* ------------------------------------------------------------- scoring
\*
\* The float64 values are held as integers: MarketCap and TotalVolume in
\* millions of the currency, APY and StakingRatio in hundredths of a percent,
\* ATHChangePercentage in percent.

\* x / y in float64: a finite quotient, kept as the fraction, or what IEEE
\* 754 gives for a zero divisor.
Quotient(x, y) ==
    IF y # 0 THEN [kind |-> "finite", num |-> x, den |-> y]
    ELSE IF x > 0 THEN [kind |-> "+Inf", num |-> 0, den |-> 1]
    ELSE IF x < 0 THEN [kind |-> "-Inf", num |-> 0, den |-> 1]
    ELSE [kind |-> "NaN", num |-> 0, den |-> 1]

\* q > n/d in float64, for d > 0: false for NaN.
Greater(q, n, d) ==
    CASE q.kind = "NaN" -> FALSE
      [] q.kind = "+Inf" -> TRUE
      [] q.kind = "-Inf" -> FALSE
      [] OTHER -> IF q.den > 0 THEN q.num * d > n * q.den
                               ELSE q.num * d < n * q.den

\* staking == nil
NilStaking == [nil |-> TRUE, APY |-> 0, StakingRatio |-> 0]

StakingData(apy, ratio) == [nil |-> FALSE, APY |-> apy, StakingRatio |-> ratio]

\* Market Score, from price.MarketCapRank.
MarketScore(rank) ==
    IF rank > 0 /\ rank <= 10 THEN 25
    ELSE IF rank <= 25 THEN 22
    ELSE IF rank <= 50 THEN 18
    ELSE IF rank <= 100 THEN 14
    ELSE IF rank <= 250 THEN 10
    ELSE 5

\* A staking score with strict thresholds.
StakingScoreStrict(staking) ==
    IF staking.nil THEN 0
    ELSE (IF staking.APY > 1000 THEN 20
          ELSE IF staking.APY > 500 THEN 15
          ELSE IF staking.APY > 200 THEN 10
          ELSE 5)
         + (IF staking.StakingRatio > 5000 THEN 5 ELSE 0)

\* Staking Score, from staking.APY and staking.StakingRatio.
StakingScore(staking) ==
    IF staking.nil THEN 0
    ELSE (IF staking.APY >= 1000 THEN 20
          ELSE IF staking.APY >= 500 THEN 15
          ELSE IF staking.APY >= 200 THEN 10
          ELSE 5)
         + (IF staking.StakingRatio >= 5000 THEN 5 ELSE 0)

\* A security score with inclusive thresholds.
SecurityScoreInclusive(marketCap) ==
    IF marketCap >= 10000 THEN 20
    ELSE IF marketCap >= 1000 THEN 16
    ELSE IF marketCap >= 100 THEN 12
    ELSE 8

\* Security Score, from price.MarketCap: > $10B, > $1B, > $100M.
SecurityScore(marketCap) ==
    IF marketCap > 10000 THEN 20
    ELSE IF marketCap > 1000 THEN 16
    ELSE IF marketCap > 100 THEN 12
    ELSE 8

\* An adoption score from the inverse ratio, market cap by volume.
AdoptionScoreInverted(totalVolume, marketCap) ==
    LET mcapToVolume == Quotient(marketCap, totalVolume) IN
    IF Greater(mcapToVolume, 1, 10) THEN 15
    ELSE IF Greater(mcapToVolume, 5, 100) THEN 12
    ELSE IF Greater(mcapToVolume, 1, 100) THEN 9
    ELSE 5

\* Adoption Score, from price.TotalVolume / price.MarketCap.
AdoptionScore(totalVolume, marketCap) ==
    LET volumeToMcap == Quotient(totalVolume, marketCap) IN
    IF Greater(volumeToMcap, 1, 10) THEN 15
    ELSE IF Greater(volumeToMcap, 5, 100) THEN 12
    ELSE IF Greater(volumeToMcap, 1, 100) THEN 9
    ELSE 5

\* Tech Score, from price.ATHChangePercentage.
TechScore(athChange) ==
    IF athChange > -20 THEN 15
    ELSE IF athChange > -50 THEN 12
    ELSE IF athChange > -80 THEN 8
    ELSE 4

\* The breakdown of calculateScore.
Breakdown(price, staking) ==
    [MarketScore |-> MarketScore(price.MarketCapRank),
     StakingScore |-> StakingScore(staking),
     SecurityScore |-> SecurityScore(price.MarketCap),
     AdoptionScore |-> AdoptionScore(price.TotalVolume, price.MarketCap),
     TechScore |-> TechScore(price.ATHChangePercentage)]

\* A total that leaves out the staking score.
calculateScoreNoStaking(price, staking) ==
    LET breakdown == Breakdown(price, staking) IN
    [total |-> breakdown.MarketScore + breakdown.SecurityScore
               + breakdown.AdoptionScore + breakdown.TechScore,
     breakdown |-> breakdown]

calculateScore(price, staking) ==
    LET breakdown == Breakdown(price, staking) IN
    [total |-> breakdown.MarketScore + breakdown.StakingScore
               + breakdown.SecurityScore + breakdown.AdoptionScore
               + breakdown.TechScore,
     breakdown |-> breakdown]

\* The arguments calculateScore is evaluated on: values at, next to and
\* between the thresholds.
ScoreRanks == {-1, 0, 1, 10, 11, 25, 26, 50, 51, 100, 101, 250, 251}

ScoreMarketCaps == {0, 100, 101, 1000, 1001, 10000, 10001}

ScoreVolumes == {0, 1, 2, 5, 6, 10, 11, 1001}

ScoreATHChanges == {-81, -80, -79, -50, -49, -20, -19}

\* An asset of rank 5 with a market cap of $50B, a volume of $6B, 10% below
\* its all-time high, staked at a yield of 12% with 60% of the supply.
TopAssetPrice ==
    [MarketCapRank |-> 5, MarketCap |-> 50000, TotalVolume |-> 6000,
     ATHChangePercentage |-> -10]

TopAssetStaking == StakingData(1200, 6000)

ScoreStakings ==
    {NilStaking, TopAssetStaking} \cup
    {StakingData(apy, ratio) : apy \in {199, 200, 499, 500, 999, 1000},
                              ratio \in {4999, 5000}}

ScorePrices ==
    [MarketCapRank : ScoreRanks, MarketCap : ScoreMarketCaps,
     TotalVolume : ScoreVolumes, ATHChangePercentage : ScoreATHChanges]
    \cup {TopAssetPrice}

\* calculateScore is about to be called on some arguments.
InitScore ==
    /\ prices = EmptyMap
    /\ mu = [readers |-> {}, writer |-> 0]
    /\ now = 0
    /\ ticks = 0
    /\ started = 0
    /\ lastRec = EmptyMap
    /\ req = [r \in Reqs |-> IdleReq]
    /\ markets = IdleMarkets
    /\ upstream = NoUpstream
    /\ \E price \in ScorePrices, staking \in ScoreStakings :
          scoring = [pc |-> "call", price |-> price, staking |-> staking,
                     total |-> 0, breakdown |-> ZeroScoreData]

\* calculateScore(price, staking) returns.
CalculateScore ==
    LET res == calculateScore(scoring.price, scoring.staking) IN
    /\ scoring.pc = "call"
    /\ scoring' = [scoring EXCEPT !.pc = "returned", !.total = res.total,
                                  !.breakdown = res.breakdown]
    /\ UNCHANGED <<cvars, markets, upstream>>

NextScore == CalculateScore

SpecScore == InitScore /\ [][NextScore]_vars

\* ------------------------------------------------------- handleMarkets

\* stakingDataCache: some of its entries.
stakingDataCache ==
    [id \in {"ethereum", "solana", "cosmos"} |->
        CASE id = "ethereum" -> StakingData(313, 3046)
          [] id = "solana" -> StakingData(615, 6865)
          [] id = "cosmos" -> StakingData(2021, 6102)]

\* staking := stakingDataCache[p.ID]
StakingOf(id) ==
    IF id \in DOMAIN stakingDataCache THEN stakingDataCache[id] ELSE NilStaking

\* The records the provider lists: assets with and without a staking entry,
\* at a high and at a low rank.
MarketIDs == {"bitcoin", "litecoin", "ethereum", "solana"}

MarketRecord(id, rank) ==
    [ID |-> id, MarketCapRank |-> rank, MarketCap |-> 20000,
     TotalVolume |-> 100, ATHChangePercentage |-> -30]

MarketRecords == {MarketRecord(id, rank) : id \in MarketIDs, rank \in {5, 300}}

\* What the provider answers to the listing request: no answer, a body that
\* does not decode, a list of records; the status is not looked at.
MarketAnswers ==
    {TransportFailure} \cup
    {HTTPResponse(st, FALSE, <<>>) : st \in {StatusOK, 500}} \cup
    {HTTPResponse(st, TRUE, l) : st \in {StatusOK, 500},
                                 l \in SeqsOf(MarketRecords, 0, MaxAssets)}

\* The MarketAsset built from record p.
MarketAsset(p) ==
    LET res == calculateScore(p, StakingOf(p.ID)) IN
    [ID |-> p.ID, MarketCapRank |-> p.MarketCapRank,
     Score |-> res.total, ScoreBreakdown |-> res.breakdown]

\* An exchange that loses the element at i: assets[i] = assets[j] alone.
SwapOverwrite(assets, i, j) ==
    [k \in 1..Len(assets) |-> IF k = i THEN assets[j] ELSE assets[k]]

\* assets[i], assets[j] = assets[j], assets[i]
Swap(assets, i, j) ==
    [k \in 1..Len(assets) |->
        IF k = i THEN assets[j] ELSE IF k = j THEN assets[i] ELSE assets[k]]

\* The inner loop of the sort, from j on.
RECURSIVE SortInner(_, _, _)
SortInner(assets, i, j) ==
    IF j > Len(assets) THEN assets
    ELSE SortInner(IF assets[j].Score > assets[i].Score
                   THEN Swap(assets, i, j) ELSE assets, i, j + 1)

\* The outer loop of the sort, from i on.
RECURSIVE SortOuter(_, _)
SortOuter(assets, i) ==
    IF i >= Len(assets) THEN assets
    ELSE SortOuter(SortInner(assets, i, i + 1), i + 1)

\* Sort by score
SortByScore(assets) == SortOuter(assets, 1)

\* handleMarkets with the provider's answer h: an error answer, or the
\* assets built from the records, sorted by score.
HandleMarkets(h) ==
    LET built == [k \in 1..Len(h.records) |-> MarketAsset(h.records[k])] IN
    /\ markets.pc = "idle"
    /\ IF h.doErr \/ ~h.decodable
       THEN markets' = [pc |-> "done", status |-> 500, cgPrices |-> <<>>,
                        assets |-> <<>>, count |-> 0]
       ELSE markets' = [pc |-> "done", status |-> StatusOK, cgPrices |-> h.records,
                        assets |-> SortByScore(built), count |-> Len(built)]
    /\ UNCHANGED <<cvars, scoring, upstream>>

NextMarkets == \E h \in MarketAnswers : HandleMarkets(h)

SpecMarkets == Init /\ [][NextMarkets]_vars

\* The sort of handleMarkets, one loop test at a time. The state is the one
\* after the build loop: the assets built from the records, in their order.
BuiltAssets(records) == [k \in 1..Len(records) |-> MarketAsset(records[k])]

InitSort ==
    /\ prices = EmptyMap
    /\ mu = [readers |-> {}, writer |-> 0]
    /\ now = 0
    /\ ticks = 0
    /\ started = 0
    /\ lastRec = EmptyMap
    /\ req = [r \in Reqs |-> IdleReq]
    /\ scoring = NoScoring
    /\ upstream = NoUpstream
    /\ \E l \in SeqsOf(MarketRecords, 0, MaxAssets) :
          markets = [pc |-> "outer", status |-> StatusOK, cgPrices |-> l,
                     assets |-> BuiltAssets(l), count |-> 0, i |-> 1, j |-> 1]

\* for i := 0; i < len(assets)-1; i++ (indices from 1 here)
SortOuterTest ==
    /\ markets.pc = "outer"
    /\ IF markets.i < Len(markets.assets)
       THEN markets' = [markets EXCEPT !.pc = "inner", !.j = markets.i + 1]
       ELSE markets' = [markets EXCEPT !.pc = "done",
                                       !.count = Len(markets.assets)]
    /\ UNCHANGED <<cvars, scoring, upstream>>

\* for j := i + 1; j < len(assets); j++ { if ... { swap } }
SortInnerTest ==
    /\ markets.pc = "inner"
    /\ IF markets.j <= Len(markets.assets)
       THEN markets' = [markets EXCEPT
                !.assets = IF @[markets.j].Score > @[markets.i].Score
                           THEN Swap(@, markets.i, markets.j) ELSE @,
                !.j = @ + 1]
       ELSE markets' = [markets EXCEPT !.pc = "outer", !.i = @ + 1]
    /\ UNCHANGED <<cvars, scoring, upstream>>

NextSort == SortOuterTest \/ SortInnerTest

SpecSort == InitSort /\ [][NextSort]_vars

\* ------------------------------------------------- the fetchers on their own

\* Status codes of provider responses: success codes, 200 among them, a
\* redirection, client and server errors.
UpstreamStatuses == {StatusOK, 201, 204, 299, 304, 404, 429, 500}

\* What the provider can answer to one request: no response, or a response
\* with a status and a body that does not decode or holds a list of records.
UpstreamAnswers ==
    {TransportFailure}
    \cup {HTTPResponse(st, FALSE, <<>>) : st \in UpstreamStatuses}
    \cup {HTTPResponse(st, TRUE, l) :
            st \in UpstreamStatuses,
            l \in SeqsOf(RecordsOf(<<"btc", "eth">>), 0, MaxRecords)}

\* A fetcher is about to get the provider's answer.
InitUpstream ==
    /\ prices = EmptyMap
    /\ mu = [readers |-> {}, writer |-> 0]
    /\ now = 0
    /\ ticks = 0
    /\ started = 0
    /\ lastRec = EmptyMap
    /\ req = [r \in Reqs |-> IdleReq]
    /\ scoring = NoScoring
    /\ markets = IdleMarkets
    /\ \E fn \in {"fetchFromCoinGecko", "fetchMultipleFromCoinGecko"},
          h \in UpstreamAnswers :
          upstream = [pc |-> "call", fn |-> fn, h |-> h, err |-> "",
                      price |-> ZeroPrice, prices |-> <<>>]

\* fetchFromCoinGecko returns.
FetchOneReturn ==
    LET res == fetchFromCoinGecko(upstream.h) IN
    /\ upstream.pc = "call" /\ upstream.fn = "fetchFromCoinGecko"
    /\ upstream' = [upstream EXCEPT !.pc = "returned", !.err = res.err,
                                    !.price = res.price]
    /\ UNCHANGED <<cvars, scoring, markets>>

\* fetchMultipleFromCoinGecko returns.
FetchMultipleReturn ==
    LET res == fetchMultipleFromCoinGecko(upstream.h) IN
    /\ upstream.pc = "call" /\ upstream.fn = "fetchMultipleFromCoinGecko"
    /\ upstream' = [upstream EXCEPT !.pc = "returned", !.err = res.err,
                                    !.prices = res.prices]
    /\ UNCHANGED <<cvars, scoring, markets>>

NextUpstream == FetchOneReturn \/ FetchMultipleReturn

SpecUpstream == InitUpstream /\ [][NextUpstream]_vars

\* ------------------------------------------------------------ properties

\* The cache key of a GetPrice call.
KeyOf(r) == CacheKey(req[r].tokenID, req[r].currency)

\* GetPrice has evaluated its freshness test.
Tested(r) == req[r].pc \in {"gp_fetch", "gp_lock", "gp_unlock", "done"}

\* The entry GetPrice read was absent, or at least one TTL old at the test.
Expired(r) ==
    ~req[r].exists \/ req[r].checkedAt - req[r].cached.UpdatedAt >= cacheTTL

\* The response that carries the values of the entry GetPrice read.
EntryResponse(r) ==
    [ID |-> req[r].tokenID, Symbol |-> "", Name |-> "",
     Price |-> req[r].cached.Price, Currency |-> req[r].cached.Currency,
     Change24h |-> req[r].cached.Change24h, MarketCap |-> req[r].cached.MarketCap,
     Volume24h |-> req[r].cached.Volume24h, UpdatedAt |-> req[r].cached.UpdatedAt,
     Cached |-> TRUE]

\* C1: a GetPrice call issues an upstream fetch (one, for its own
\* identifier and currency) exactly when the entry it read is absent or at
\* least one TTL old at the test; otherwise it returns the entry's values
\* with cached=true and no upstream call.
C1_FetchIffAbsentOrExpired ==
    \A r \in Reqs : req[r].op = "GetPrice" =>
        /\ Len(req[r].calls) <= 1
        /\ ~Tested(r) => req[r].calls = <<>>
        /\ Tested(r) => (req[r].calls # <<>> <=> Expired(r))
        /\ req[r].calls # <<>> =>
              req[r].calls[1] = [fn |-> "fetchFromCoinGecko",
                                 ids |-> <<req[r].tokenID>>,
                                 currency |-> req[r].currency]
        /\ req[r].pc = "done" /\ ~Expired(r) =>
              req[r].ret = [nil |-> FALSE, val |-> EntryResponse(r), err |-> ""]

\* C1 witness: one call hit an entry of age TTL-1 without a fetch while
\* another, finding the entry exactly one TTL old, has its fetch in flight.
C1_Witness ==
    \E r1, r2 \in Reqs :
        /\ req[r1].op = "GetPrice" /\ req[r1].pc = "done" /\ req[r1].exists
        /\ req[r1].checkedAt - req[r1].cached.UpdatedAt = cacheTTL - 1
        /\ req[r1].ret.val.Cached /\ req[r1].calls = <<>>
        /\ req[r2].op = "GetPrice" /\ req[r2].pc = "gp_fetch" /\ req[r2].exists
        /\ req[r2].checkedAt - req[r2].cached.UpdatedAt = cacheTTL

\* C2: when GetPrice read an entry at least one TTL old and the fetch
\* failed, it returns that entry's values with cached=true and a nil error.
C2_StaleFallback ==
    \A r \in Reqs :
        (/\ req[r].op = "GetPrice" /\ req[r].pc = "done"
         /\ req[r].exists /\ Expired(r) /\ req[r].fetchErr # "")
        => req[r].ret = [nil |-> FALSE, val |-> EntryResponse(r), err |-> ""]

\* C2 witness: a stale entry was returned after the provider reported no
\* record, the entry being two clock steps old.
C2_Witness ==
    \E r \in Reqs :
        /\ req[r].op = "GetPrice" /\ req[r].pc = "done"
        /\ req[r].exists /\ req[r].checkedAt - req[r].cached.UpdatedAt >= cacheTTL
        /\ req[r].fetchErr = "notfound"
        /\ req[r].ret.val.Cached /\ req[r].ret.err = ""
        /\ req[r].ret.val.Price = req[r].cached.Price /\ req[r].cached.Price > 0

\* C3: when GetPrice read no entry and the fetch failed, it returns the
\* fetch error and no response, and it wrote nothing to the cache.
C3_MissAndFailure ==
    \A r \in Reqs :
        (/\ req[r].op = "GetPrice" /\ req[r].pc = "done"
         /\ ~req[r].exists /\ req[r].fetchErr # "")
        => /\ req[r].ret = [nil |-> TRUE, val |-> ZeroResponse, err |-> req[r].fetchErr]
           /\ req[r].wrote = {}

\* C3 witness: a miss whose fetch failed in transport, the cache still empty.
C3_Witness ==
    \E r \in Reqs :
        /\ req[r].op = "GetPrice" /\ req[r].pc = "done"
        /\ ~req[r].exists /\ req[r].fetchErr = "transport"
        /\ req[r].ret.nil /\ req[r].ret.err = "transport"
        /\ DOMAIN prices = {}

\* C4: a successful fetch stores the complete entry built from the fetched
\* record under the call's key and returns the fetched values with
\* cached=false; a fresh hit returns price, change, market cap and volume of
\* the record last written under the key when the entry was read.
C4_FetchStoresAndReturns ==
    \A r \in Reqs : req[r].op = "GetPrice" =>
        /\ req[r].pc = "gp_unlock" =>
              /\ KeyOf(r) \in DOMAIN prices
              /\ prices[KeyOf(r)] =
                    [Price |-> req[r].price.CurrentPrice,
                     Currency |-> req[r].currency,
                     UpdatedAt |-> prices[KeyOf(r)].UpdatedAt,
                     Change24h |-> req[r].price.PriceChangePercentage24h,
                     MarketCap |-> req[r].price.MarketCap,
                     Volume24h |-> req[r].price.TotalVolume]
              /\ prices[KeyOf(r)].UpdatedAt <= now
        /\ req[r].pc = "done" /\ req[r].calls # <<>> /\ req[r].fetchErr = "" =>
              /\ req[r].ret.err = "" /\ ~req[r].ret.nil
              /\ req[r].ret.val =
                    [ID |-> req[r].tokenID, Symbol |-> req[r].price.Symbol,
                     Name |-> req[r].price.Name,
                     Price |-> req[r].price.CurrentPrice,
                     Currency |-> req[r].currency,
                     Change24h |-> req[r].price.PriceChangePercentage24h,
                     MarketCap |-> req[r].price.MarketCap,
                     Volume24h |-> req[r].price.TotalVolume,
                     UpdatedAt |-> req[r].ret.val.UpdatedAt, Cached |-> FALSE]
              /\ req[r].wrote = {KeyOf(r)}
        /\ req[r].pc = "done" /\ req[r].calls = <<>> =>
              /\ req[r].ret.val.Cached
              /\ req[r].srcRec \in RecordsOf(<<req[r].tokenID>>)
              /\ req[r].ret.val.Price = req[r].srcRec.CurrentPrice
              /\ req[r].ret.val.Change24h = req[r].srcRec.PriceChangePercentage24h
              /\ req[r].ret.val.MarketCap = req[r].srcRec.MarketCap
              /\ req[r].ret.val.Volume24h = req[r].srcRec.TotalVolume

\* C4 witness: one call replaced a stale entry by a record with another
\* price and returned it with cached=false; a later call hit that entry
\* within the TTL and returned the same price with cached=true.
C4_Witness ==
    \E r1, r2 \in Reqs :
        /\ req[r1].op = "GetPrice" /\ req[r1].pc = "done"
        /\ req[r1].exists /\ req[r1].calls # <<>> /\ req[r1].fetchErr = ""
        /\ ~req[r1].ret.val.Cached
        /\ req[r1].cached.Price # req[r1].price.CurrentPrice
        /\ req[r2].op = "GetPrice" /\ req[r2].pc = "done"
        /\ req[r2].calls = <<>> /\ req[r2].ret.val.Cached
        /\ req[r2].srcRec = req[r1].price
        /\ req[r2].ret.val.Price = req[r1].ret.val.Price
        /\ req[r2].cached.UpdatedAt >= cacheTTL

\* A GetMultiplePrices call that has returned.
BatchDone(r) == req[r].op = "GetMultiplePrices" /\ req[r].pc = "done"

\* The identifiers of the records the batch fetch returned.
FetchedIDs(r) == {req[r].fetched[k].ID : k \in 1..Len(req[r].fetched)}

\* The identifiers found absent or at least one TTL old at their test.
NeedIDs(r) == req[r].staleIDs \cup req[r].absentIDs

\* C5: a GetMultiplePrices call returns no error; an identifier with a fresh
\* entry is in the result with cached=true, an expired or absent identifier
\* the batch fetch returned is in it with cached=false, and an expired or
\* absent identifier the batch fetch did not resolve is not in it.
C5_BatchPartialSuccess ==
    \A r \in Reqs : BatchDone(r) =>
        /\ req[r].ret.err = "" /\ ~req[r].ret.nil
        /\ \A id \in Range(req[r].tokenIDs) :
              /\ id \in req[r].freshIDs \ NeedIDs(r) =>
                    id \in DOMAIN req[r].multi /\ req[r].multi[id].Cached
              /\ id \in NeedIDs(r) \cap FetchedIDs(r) =>
                    id \in DOMAIN req[r].multi /\ ~req[r].multi[id].Cached
              /\ id \in NeedIDs(r) \ (FetchedIDs(r) \cup req[r].freshIDs) =>
                    id \notin DOMAIN req[r].multi

\* C5 witness: a call over three identifiers, one fresh, one expired and
\* returned by the batch fetch, one absent and not returned.
C5_Witness ==
    \E r \in Reqs : \E A, B, C \in TokenIDs :
        /\ BatchDone(r) /\ Len(req[r].tokenIDs) = 3
        /\ Range(req[r].tokenIDs) = {A, B, C}
        /\ A \in req[r].freshIDs
        /\ B \in req[r].staleIDs /\ B \in FetchedIDs(r)
        /\ C \in req[r].absentIDs /\ C \notin FetchedIDs(r)
        /\ DOMAIN req[r].multi = {A, B}
        /\ req[r].multi[A].Cached /\ ~req[r].multi[B].Cached
        /\ req[r].ret.err = ""

\* A GetMultiplePrices call whose batch fetch failed and that has returned.
BatchFailed(r) == BatchDone(r) /\ req[r].fetchErr # ""

\* C6 as stated: GetMultiplePrices returns no error; after a failed batch
\* fetch the result holds exactly the identifiers found fresh, each with
\* cached=true, and none of the identifiers put into the needs-fetch list.
C6_AsStated ==
    \A r \in Reqs :
        /\ BatchDone(r) => req[r].ret.err = "" /\ ~req[r].ret.nil
        /\ BatchFailed(r) =>
              /\ DOMAIN req[r].multi = req[r].freshIDs
              /\ \A id \in req[r].freshIDs : req[r].multi[id].Cached
              /\ \A id \in Range(req[r].toFetch) : id \notin DOMAIN req[r].multi

\* C6: GetMultiplePrices returns no error; after a failed batch fetch the
\* result holds exactly the identifiers found fresh at one of their
\* occurrences, each with cached=true, and
\* no identifier that was put into the needs-fetch list at every one of its
\* occurrences, whether or not the cache holds a stale entry for it.
C6_BatchFailure ==
    \A r \in Reqs :
        /\ BatchDone(r) => req[r].ret.err = "" /\ ~req[r].ret.nil
        /\ BatchFailed(r) =>
              /\ DOMAIN req[r].multi = req[r].freshIDs
              /\ \A id \in req[r].freshIDs : req[r].multi[id].Cached
              /\ \A id \in Range(req[r].toFetch) \ req[r].freshIDs :
                    id \notin DOMAIN req[r].multi
              /\ req[r].wrote = {}

\* C6 witness: the batch fetch for an expired identifier failed; the call
\* returned no error and the other, fresh identifier with cached=true, and
\* not the expired one, whose stale entry is still in the cache.
C6_Witness ==
    \E r \in Reqs : \E A, B \in PairIDs :
        /\ BatchFailed(r) /\ req[r].ret.err = "" /\ ~req[r].ret.nil
        /\ req[r].freshIDs = {A} /\ req[r].staleIDs = {B} /\ A # B
        /\ CacheKey(B, req[r].currency) \in DOMAIN prices
        /\ DOMAIN req[r].multi = {A} /\ req[r].multi[A].Cached

\* GetMultiplePrices has left the loop that partitions tokenIDs.
Partitioned(r) == req[r].pc \in {"gm_fetch", "gm_lock", "gm_unlock", "done"}

\* C7: a GetMultiplePrices call issues no upstream call before it has tested
\* every identifier; then it has issued one batch call, carrying the whole
\* needs-fetch list, exactly when some identifier was absent or expired at
\* its test, and none otherwise; it never issues a per-identifier call nor a
\* second call.
C7_OneBatchCall ==
    \A r \in Reqs : req[r].op = "GetMultiplePrices" =>
        /\ Len(req[r].calls) <= 1
        /\ \A k \in 1..Len(req[r].calls) :
              req[r].calls[k].fn = "fetchMultipleFromCoinGecko"
        /\ ~Partitioned(r) => req[r].calls = <<>>
        /\ Partitioned(r) =>
              /\ req[r].calls # <<>> <=> NeedIDs(r) # {}
              /\ Range(req[r].toFetch) = NeedIDs(r)
              /\ req[r].calls # <<>> =>
                    req[r].calls[1] = [fn |-> "fetchMultipleFromCoinGecko",
                                       ids |-> req[r].toFetch,
                                       currency |-> req[r].currency]

\* C7 witness: one batch call carried an expired and an absent identifier
\* together, and the call has returned.
C7_Witness ==
    \E r \in Reqs :
        /\ BatchDone(r) /\ Len(req[r].calls) = 1
        /\ Len(req[r].calls[1].ids) = 2
        /\ req[r].staleIDs # {} /\ req[r].absentIDs # {}
        /\ Range(req[r].calls[1].ids) = req[r].staleIDs \cup req[r].absentIDs
        /\ FetchedIDs(r) = Range(req[r].tokenIDs)

\* The cache entry built from record p in currency cur, at time t.
EntryOf(p, cur, t) ==
    [Price |-> p.CurrentPrice, Currency |-> cur, UpdatedAt |-> t,
     Change24h |-> p.PriceChangePercentage24h, MarketCap |-> p.MarketCap,
     Volume24h |-> p.TotalVolume]

\* What the claims on the result of GetMultiplePrices have in common: the
\* key set is the union of the identifiers found fresh and the identifiers
\* of the fetched records; a record is in the cache under its key while the
\* writer holds the lock, every record's key has been written when the call
\* returns, and every record is in the result with cached=false.
BatchResult(r) ==
    /\ req[r].pc = "gm_unlock" =>
          LET p == req[r].fetched[req[r].j]
              key == CacheKey(p.ID, req[r].currency)
          IN /\ key \in DOMAIN prices
             /\ prices[key] = EntryOf(p, req[r].currency, prices[key].UpdatedAt)
    /\ req[r].pc = "done" =>
          /\ DOMAIN req[r].multi = req[r].freshIDs \cup FetchedIDs(r)
          /\ req[r].wrote =
                {CacheKey(id, req[r].currency) : id \in FetchedIDs(r)}
          /\ \A k \in 1..Len(req[r].fetched) :
                LET p == req[r].fetched[k] IN
                /\ ~req[r].multi[p.ID].Cached
                /\ req[r].multi[p.ID].ID = p.ID
                /\ req[r].multi[p.ID].Price = p.CurrentPrice
                /\ req[r].multi[p.ID].MarketCap = p.MarketCap

\* C8 as stated: the key set of the result is the union of the fresh and the
\* fetched identifiers, every fetched record is written to the cache and in
\* the result with cached=false, and every identifier found fresh is in the
\* result with cached=true.
C8_AsStated ==
    \A r \in Reqs : req[r].op = "GetMultiplePrices" =>
        /\ BatchResult(r)
        /\ req[r].pc = "done" =>
              \A id \in req[r].freshIDs : req[r].multi[id].Cached

\* C8: the key set of the result is the union of the fresh and the fetched
\* identifiers, every fetched record is written to the cache and in the
\* result with cached=false, and every identifier found fresh that is not
\* the identifier of a fetched record is in the result with cached=true.
C8_ResultKeys ==
    \A r \in Reqs : req[r].op = "GetMultiplePrices" =>
        /\ BatchResult(r)
        /\ req[r].pc = "done" =>
              \A id \in req[r].freshIDs \ FetchedIDs(r) : req[r].multi[id].Cached

\* C8 witness: a call found one identifier fresh and fetched the other one,
\* replacing its stale entry; the result holds both, the cache the new entry.
C8_Witness ==
    \E r \in Reqs : \E A, B \in PairIDs :
        /\ BatchDone(r) /\ A # B
        /\ req[r].freshIDs = {A} /\ req[r].staleIDs = {B}
        /\ Len(req[r].fetched) = 1 /\ req[r].fetched[1].ID = B
        /\ DOMAIN req[r].multi = {A, B}
        /\ req[r].multi[A].Cached /\ ~req[r].multi[B].Cached
        /\ prices[CacheKey(B, req[r].currency)] =
              EntryOf(req[r].fetched[1], req[r].currency, now)

\* The entry e is the one built from a single record of the provider for
\* some identifier.
FromOneRecord(e) ==
    \E id \in TokenIDs : \E p \in RecordsOf(<<id>>) :
        e = EntryOf(p, e.Currency, e.UpdatedAt)

\* The GetPrice calls that have written their fetched record under key.
Writers(key) ==
    {r \in Reqs : /\ req[r].op = "GetPrice" /\ key \in req[r].wrote
                  /\ req[r].pc \in {"gp_unlock", "done"}}

\* C9: every entry of the cache is, field for field, the entry built from
\* one fetched record, the record of the last write-back under its key; so
\* is every entry a request has read; and once every goroutine's GetPrice
\* call has written under a key, the entry under it is the one built from
\* the record of one of them.
C9_NoMixedEntry ==
    /\ \A key \in DOMAIN prices :
          /\ FromOneRecord(prices[key])
          /\ key \in DOMAIN lastRec
          /\ prices[key] =
                EntryOf(lastRec[key], prices[key].Currency, prices[key].UpdatedAt)
          /\ Writers(key) = Reqs =>
                \E r \in Reqs :
                    prices[key] =
                      EntryOf(req[r].price, req[r].currency, prices[key].UpdatedAt)
    /\ \A r \in Reqs : req[r].exists => FromOneRecord(req[r].cached)

\* C9 witness: two GetPrice calls read the same expired entry, fetched
\* different records and both wrote back; the entry is the one built from
\* one of the two records.
C9_Witness ==
    \E r1, r2 \in Reqs :
        /\ r1 # r2 /\ Writers(KeyOf(r1)) = Reqs /\ KeyOf(r1) = KeyOf(r2)
        /\ req[r1].pc = "done" /\ req[r2].pc = "done"
        /\ req[r1].exists /\ Expired(r1) /\ req[r2].exists /\ Expired(r2)
        /\ req[r1].cached = req[r2].cached
        /\ req[r1].price # req[r2].price
        /\ prices[KeyOf(r1)] =
              EntryOf(req[r2].price, req[r2].currency, prices[KeyOf(r1)].UpdatedAt)

\* A request is inside fetchFromCoinGecko or fetchMultipleFromCoinGecko.
Fetching(r) == req[r].pc \in {"gp_fetch", "gm_fetch"}

\* C10: a request inside an upstream fetch holds neither the read lock nor
\* the write lock; the read lock is held only between RLock and RUnlock
\* around the map read, the write lock only between Lock and Unlock around
\* the map write.
C10_NoLockDuringFetch ==
    /\ \A r \in Reqs : Fetching(r) => r \notin mu.readers /\ mu.writer # r
    /\ mu.readers = {r \in Reqs : req[r].pc \in {"gp_runlock", "gm_runlock"}}
    /\ \A r \in Reqs : mu.writer = r <=> req[r].pc \in {"gp_unlock", "gm_unlock"}

\* C10 witness: while one request is inside the upstream fetch, another one
\* holds the write lock and has written the cache.
C10_Witness ==
    \E r1, r2 \in Reqs :
        /\ r1 # r2 /\ Fetching(r1)
        /\ mu.writer = r2 /\ req[r2].wrote # {}

\* Request r takes the write lock and stores under key in this step.
WritesNow(r, key) ==
    /\ req[r].pc \in {"gp_lock", "gm_lock"}
    /\ req'[r].pc \in {"gp_unlock", "gm_unlock"}
    /\ key \in req'[r].wrote

\* Request r is past a fetch that succeeded, which it issued because the
\* entry it read was absent or expired.
FetchSucceeded(r) ==
    /\ req[r].calls # <<>> /\ req[r].fetchErr = ""
    /\ req[r].op = "GetPrice" => Expired(r)
    /\ req[r].op = "GetMultiplePrices" => NeedIDs(r) # {}

\* A call that has returned without a successful fetch: a fresh hit, a
\* failed fetch, a batch call whose identifiers were all fresh.
NoFetchSucceeded(r) ==
    /\ req[r].pc = "done"
    /\ req[r].calls = <<>> \/ req[r].fetchErr # ""

\* C11: a call that returns without a successful fetch has written nothing,
\* and in every step that adds a cache entry or changes one, the entry is
\* stored by a request whose fetch succeeded.
C11_ChangedOnlyBySuccessfulFetch ==
    /\ [](\A r \in Reqs : NoFetchSucceeded(r) => req[r].wrote = {})
    /\ [][\A key \in DOMAIN prices' :
            (key \notin DOMAIN prices \/ prices'[key] # prices[key]) =>
                \E r \in Reqs : WritesNow(r, key) /\ FetchSucceeded(r)]_vars

\* C11 witness: a GetPrice whose fetch failed returned the stale entry, which
\* is still in the cache as it was read, and a GetMultiplePrices found every
\* identifier fresh; neither has written.
C11_Witness ==
    \E r1, r2 \in Reqs :
        /\ req[r1].op = "GetPrice" /\ req[r1].pc = "done"
        /\ req[r1].exists /\ req[r1].fetchErr # "" /\ req[r1].wrote = {}
        /\ prices[KeyOf(r1)] = req[r1].cached
        /\ BatchDone(r2) /\ req[r2].calls = <<>> /\ req[r2].freshIDs # {}
        /\ req[r2].wrote = {}

StoredKey(r) ==
    IF req[r].op = "GetPrice" THEN KeyOf(r)
    ELSE CacheKey(req[r].fetched[req[r].j].ID, req[r].currency)

\* C13 as stated: the entry a request has just stored carries, as UpdatedAt,
\* the time at which its upstream fetch returned, whatever time passed
\* between the return of the fetch and the write-back.
C13_AsStated ==
    \A r \in Reqs : req[r].pc \in {"gp_unlock", "gm_unlock"} =>
        prices[StoredKey(r)].UpdatedAt = req[r].fetchedAt

\* C14 as stated: requests for different (identifier, currency) pairs never
\* use the same cache slot, so the entry a GetPrice call reads under its key
\* was stored for its own identifier and currency, also when the strings
\* hold a ':' or differ in letter case only.
C14_AsStated ==
    \A r \in Reqs : (req[r].op = "GetPrice" /\ req[r].exists) =>
        /\ req[r].srcRec.ID = req[r].tokenID
        /\ req[r].cached.Currency = req[r].currency

\* calculateScore has returned.
Scored == scoring.pc = "returned"

\* C15: the total calculateScore returns is the sum of the five fields of
\* the breakdown and lies between 22 and 100, the market and the staking
\* score being at most 25, the security score at most 20, the adoption and
\* the tech score at most 15.
C15_TotalIsSumInRange ==
    Scored =>
        /\ scoring.total =
              scoring.breakdown.MarketScore + scoring.breakdown.StakingScore
              + scoring.breakdown.SecurityScore + scoring.breakdown.AdoptionScore
              + scoring.breakdown.TechScore
        /\ scoring.total >= 22 /\ scoring.total <= 100
        /\ scoring.breakdown.MarketScore <= 25
        /\ scoring.breakdown.StakingScore <= 25
        /\ scoring.breakdown.SecurityScore <= 20
        /\ scoring.breakdown.AdoptionScore <= 15
        /\ scoring.breakdown.TechScore <= 15

\* C15 witness: a record with a staking entry scored with the lowest market,
\* security, adoption and tech scores, the total being their sum with the
\* staking score.
C15_Witness ==
    /\ Scored /\ ~scoring.staking.nil
    /\ scoring.breakdown.MarketScore = 5 /\ scoring.breakdown.SecurityScore = 8
    /\ scoring.breakdown.AdoptionScore = 5 /\ scoring.breakdown.TechScore = 4
    /\ scoring.breakdown.StakingScore = 25
    /\ scoring.total = 47

\* C16 as stated: the market score is 25 for a rank in 1..10, 22 up to 25,
\* 18 up to 50, 14 up to 100, 10 up to 250, and 5 for every other rank, the
\* ranks 0 and below among them.
C16_AsStated ==
    Scored =>
        LET rank == scoring.price.MarketCapRank IN
        scoring.breakdown.MarketScore =
            (CASE rank >= 1 /\ rank <= 10 -> 25
               [] rank > 10 /\ rank <= 25 -> 22
               [] rank > 25 /\ rank <= 50 -> 18
               [] rank > 50 /\ rank <= 100 -> 14
               [] rank > 100 /\ rank <= 250 -> 10
               [] OTHER -> 5)

\* C17 as stated: with a market cap of zero the adoption score is 5,
\* whatever the volume.
C17_AsStated ==
    (Scored /\ scoring.price.MarketCap = 0) =>
        scoring.breakdown.AdoptionScore = 5

\* The volume is exactly n/d of the market cap, which is not zero.
RatioIs(n, d) ==
    /\ scoring.price.MarketCap > 0
    /\ scoring.price.TotalVolume * d = n * scoring.price.MarketCap

\* The staking score without the bonus for the staking ratio.
YieldScore ==
    scoring.breakdown.StakingScore
    - (IF scoring.staking.StakingRatio >= 5000 THEN 5 ELSE 0)

\* The tests on the staking entry are inclusive: a yield of exactly 10, 5
\* or 2 and a staking ratio of exactly 50 get the higher score.
StakingInclusive ==
    (Scored /\ ~scoring.staking.nil) =>
        /\ scoring.staking.APY = 1000 => YieldScore = 20
        /\ scoring.staking.APY = 500 => YieldScore = 15
        /\ scoring.staking.APY = 200 => YieldScore = 10
        /\ scoring.staking.StakingRatio = 5000 =>
              scoring.breakdown.StakingScore \in {10, 15, 20, 25}

\* C18 as stated: an argument exactly at a threshold gets the score of the
\* higher bracket: market cap $10B, $1B, $100M; volume to market cap 0.10,
\* 0.05, 0.01; ATH change -20, -50, -80; yield 10, 5, 2; staking ratio 50.
C18_AsStated ==
    /\ StakingInclusive
    /\ Scored =>
          /\ scoring.price.MarketCap = 10000 => scoring.breakdown.SecurityScore = 20
          /\ scoring.price.MarketCap = 1000 => scoring.breakdown.SecurityScore = 16
          /\ scoring.price.MarketCap = 100 => scoring.breakdown.SecurityScore = 12
          /\ RatioIs(10, 100) => scoring.breakdown.AdoptionScore = 15
          /\ RatioIs(5, 100) => scoring.breakdown.AdoptionScore = 12
          /\ RatioIs(1, 100) => scoring.breakdown.AdoptionScore = 9
          /\ scoring.price.ATHChangePercentage = -20 => scoring.breakdown.TechScore = 15
          /\ scoring.price.ATHChangePercentage = -50 => scoring.breakdown.TechScore = 12
          /\ scoring.price.ATHChangePercentage = -80 => scoring.breakdown.TechScore = 8

\* C18: the thresholds of the staking score are inclusive (yield exactly 10,
\* 5, 2 and staking ratio exactly 50 get the higher score); the thresholds
\* of the security, adoption and tech scores are strict: a market cap of
\* exactly $10B, $1B, $100M, a volume to market cap ratio of exactly 0.10,
\* 0.05, 0.01 and an ATH change of exactly -20, -50, -80 get the score of
\* the lower bracket.
C18_Thresholds ==
    /\ StakingInclusive
    /\ Scored =>
          /\ scoring.price.MarketCap = 10000 => scoring.breakdown.SecurityScore = 16
          /\ scoring.price.MarketCap = 1000 => scoring.breakdown.SecurityScore = 12
          /\ scoring.price.MarketCap = 100 => scoring.breakdown.SecurityScore = 8
          /\ RatioIs(10, 100) => scoring.breakdown.AdoptionScore = 12
          /\ RatioIs(5, 100) => scoring.breakdown.AdoptionScore = 9
          /\ RatioIs(1, 100) => scoring.breakdown.AdoptionScore = 5
          /\ scoring.price.ATHChangePercentage = -20 => scoring.breakdown.TechScore = 12
          /\ scoring.price.ATHChangePercentage = -50 => scoring.breakdown.TechScore = 8
          /\ scoring.price.ATHChangePercentage = -80 => scoring.breakdown.TechScore = 4

\* C18 witness: every argument is exactly at a threshold: market cap $100M,
\* volume a tenth of it, ATH change -20, yield 10, staking ratio 50.
C18_Witness ==
    /\ Scored /\ ~scoring.staking.nil
    /\ scoring.price.MarketCap = 100 /\ RatioIs(10, 100)
    /\ scoring.price.ATHChangePercentage = -20
    /\ scoring.staking.APY = 1000 /\ scoring.staking.StakingRatio = 5000
    /\ scoring.breakdown.SecurityScore = 8 /\ scoring.breakdown.AdoptionScore = 12
    /\ scoring.breakdown.TechScore = 12 /\ scoring.breakdown.StakingScore = 25

\* C19: the staking score is 0 without a staking entry; with one it is 20
\* for a yield of at least 10, 15 for at least 5, 10 for at least 2, else 5,
\* plus 5 for a staking ratio of at least 50; it is one of 0, 5, .., 25.
C19_StakingScore ==
    Scored =>
        /\ scoring.staking.nil => scoring.breakdown.StakingScore = 0
        /\ ~scoring.staking.nil =>
              /\ scoring.staking.APY >= 1000 => YieldScore = 20
              /\ scoring.staking.APY >= 500 /\ scoring.staking.APY < 1000 =>
                    YieldScore = 15
              /\ scoring.staking.APY >= 200 /\ scoring.staking.APY < 500 =>
                    YieldScore = 10
              /\ scoring.staking.APY < 200 => YieldScore = 5
        /\ scoring.breakdown.StakingScore \in {0, 5, 10, 15, 20, 25}

\* C19 witness: an entry with a yield just below 5 and a staking ratio of
\* exactly 50 scored 10 + 5.
C19_Witness ==
    /\ Scored /\ ~scoring.staking.nil
    /\ scoring.staking.APY = 499 /\ scoring.staking.StakingRatio = 5000
    /\ scoring.breakdown.StakingScore = 15

\* x put into the list sorted, behind every asset whose score is not lower.
RECURSIVE InsertBehindEqual(_, _)
InsertBehindEqual(sorted, x) ==
    IF sorted = <<>> THEN <<x>>
    ELSE IF Head(sorted).Score >= x.Score
         THEN <<Head(sorted)>> \o InsertBehindEqual(Tail(sorted), x)
         ELSE <<x>> \o sorted

\* The first n assets of the list in descending order of score, assets of
\* equal score in the order of the list.
RECURSIVE StableDescending(_, _)
StableDescending(assets, n) ==
    IF n = 0 THEN <<>>
    ELSE InsertBehindEqual(StableDescending(assets, n - 1), assets[n])

\* The listing has answered with the assets.
Listed == markets.pc = "done" /\ markets.status = StatusOK

\* C20 as stated: the assets of the listing are in descending order of score,
\* assets of equal score in the order of the provider's response.
C20_AsStated ==
    Listed =>
        markets.assets =
            StableDescending([k \in 1..Len(markets.cgPrices) |->
                                 MarketAsset(markets.cgPrices[k])],
                             Len(markets.cgPrices))

\* The assets of the listing are in descending order of score.
ListedDescending ==
    Listed =>
        \A k \in 1..(Len(markets.assets) - 1) :
            markets.assets[k].Score >= markets.assets[k + 1].Score

\* C21 as stated: a response with cached=true that GetPrice returns for a
\* fresh entry carries the identifier, symbol, name, price, currency, 24h
\* change, market cap and volume of the response with cached=false returned
\* when the entry was fetched, the response built from the record behind the
\* entry.
C21_AsStated ==
    \A r \in Reqs :
        (/\ req[r].op = "GetPrice" /\ req[r].pc = "done"
         /\ req[r].calls = <<>> /\ req[r].ret.val.Cached)
        => req[r].ret.val =
              [FetchedResponse(req[r].tokenID, req[r].srcRec, req[r].currency,
                               req[r].ret.val.UpdatedAt)
                   EXCEPT !.Cached = TRUE]

\* GetPrice calls r1 and r2 are for the same key.
SameKey(r1, r2) ==
    /\ req[r1].op = "GetPrice" /\ req[r2].op = "GetPrice" /\ KeyOf(r1) = KeyOf(r2)

\* C23: fetches are not deduplicated and the last write wins. A GetPrice call
\* that found its entry absent or expired has issued a fetch of its own,
\* whatever fetches other callers have in flight for the same key; a
\* write-back replaces the entry under the key by the entry built from the
\* writer's own record, whatever entry is there; and an entry changes in no
\* other step, so the entry is always the one of the write-back completed
\* last.
C23_LastWriteWins ==
    /\ [](\A r \in Reqs :
            (req[r].op = "GetPrice" /\ Tested(r) /\ Expired(r))
            => /\ Len(req[r].calls) = 1
               /\ req[r].calls[1].ids = <<req[r].tokenID>>
               /\ \A r2 \in Reqs \ {r} :
                     (SameKey(r, r2) /\ Fetching(r2)) => req[r2].calls # <<>>)
    /\ [][/\ \A r \in Reqs :
                (req[r].op = "GetPrice" /\ WritesNow(r, KeyOf(r)))
                => /\ KeyOf(r) \in DOMAIN prices'
                   /\ prices'[KeyOf(r)] =
                         EntryOf(req[r].price, req[r].currency, now)
          /\ \A key \in DOMAIN prices' :
                (key \notin DOMAIN prices \/ prices'[key] # prices[key])
                => \E r \in Reqs : WritesNow(r, key)]_vars

\* C23 witness: every goroutine called GetPrice for one key, found it absent
\* and issued its own fetch; the fetch of the one returned first, the other
\* wrote first; the entry is the one built from the record of the call that
\* wrote last, which differs from the record the other call returned.
C23_Witness ==
    \E r1, r2 \in Reqs :
        /\ r1 # r2 /\ SameKey(r1, r2) /\ Writers(KeyOf(r1)) = Reqs
        /\ req[r1].pc = "done" /\ req[r2].pc = "done"
        /\ ~req[r1].exists /\ ~req[r2].exists
        /\ req[r1].calls # <<>> /\ req[r2].calls # <<>>
        /\ req[r2].fetchedAt < req[r1].fetchedAt
        /\ req[r1].price.CurrentPrice # req[r2].price.CurrentPrice
        /\ req[r1].ret.val.Price = req[r1].price.CurrentPrice
        /\ prices[KeyOf(r1)] =
              EntryOf(req[r2].price, req[r2].currency, prices[KeyOf(r1)].UpdatedAt)
        /\ prices[KeyOf(r1)].UpdatedAt > req[r1].fetchedAt

\* The market cap, the volume/market-cap ratio and the ATH change of the
\* record lie strictly inside a bracket, and the market cap is not zero.
InsideBrackets(p) ==
    /\ p.MarketCap > 0 /\ p.MarketCap \notin {100, 1000, 10000}
    /\ p.TotalVolume * 10 # p.MarketCap
    /\ p.TotalVolume * 100 # p.MarketCap * 5
    /\ p.TotalVolume * 100 # p.MarketCap
    /\ p.ATHChangePercentage \notin {-20, -50, -80}

\* C24: for a record strictly inside the brackets, with a market cap that is
\* not zero, the security score is 20, 16, 12 or 8 for a market cap above
\* $10B, $1B, $100M or not, the adoption score 15, 12, 9 or 5 for a
\* volume/market-cap ratio above 0.10, 0.05, 0.01 or not, the tech score 15,
\* 12, 8 or 4 for an ATH change above -20, -50, -80 or not; and the asset of
\* rank 5 with market cap $50B, volume $6B, ATH change -10%, yield 12% and
\* stake ratio 60% scores 25 + 25 + 20 + 15 + 15 = 100.
C24_ReferenceSteps ==
    Scored =>
        LET p == scoring.price
            b == scoring.breakdown
        IN
        /\ InsideBrackets(p) =>
              /\ b.SecurityScore =
                    (IF p.MarketCap > 10000 THEN 20
                     ELSE IF p.MarketCap > 1000 THEN 16
                     ELSE IF p.MarketCap > 100 THEN 12 ELSE 8)
              /\ b.AdoptionScore =
                    (IF p.TotalVolume * 10 > p.MarketCap THEN 15
                     ELSE IF p.TotalVolume * 100 > p.MarketCap * 5 THEN 12
                     ELSE IF p.TotalVolume * 100 > p.MarketCap THEN 9 ELSE 5)
              /\ b.TechScore =
                    (IF p.ATHChangePercentage > -20 THEN 15
                     ELSE IF p.ATHChangePercentage > -50 THEN 12
                     ELSE IF p.ATHChangePercentage > -80 THEN 8 ELSE 4)
        /\ (p = TopAssetPrice /\ scoring.staking = TopAssetStaking) =>
              /\ InsideBrackets(p)
              /\ b = [MarketScore |-> 25, StakingScore |-> 25,
                      SecurityScore |-> 20, AdoptionScore |-> 15,
                      TechScore |-> 15]
              /\ scoring.total = 100

\* C24 witness: the asset of rank 5 has been scored 100.
C24_Witness ==
    /\ Scored /\ scoring.price = TopAssetPrice
    /\ scoring.staking = TopAssetStaking
    /\ scoring.total = 100
    /\ scoring.breakdown.AdoptionScore = 15

\* How often x occurs in the list.
Count(list, x) == Cardinality({k \in 1..Len(list) : list[k] = x})

\* Two lists hold the same elements, each as often in one as in the other.
Permutation(l1, l2) ==
    /\ Len(l1) = Len(l2)
    /\ \A x \in Range(l1) \cup Range(l2) : Count(l1, x) = Count(l2, x)

\* A number that every loop test of the sort lowers: the loop tests left
\* from (i, j) on, counted generously.
SortMeasure ==
    LET n == Len(markets.assets) IN
    CASE markets.pc = "outer" -> (n + 2 - markets.i) * (n + 3)
      [] markets.pc = "inner" ->
            (n + 2 - markets.i) * (n + 3) - 1 - (markets.j - markets.i)
      [] OTHER -> 0

\* C25: the sort terminates and sorts. Every loop test lowers a number that
\* is never negative, so the loops end on every list; at every loop test the
\* list is a permutation of the built assets; at the end it is in
\* non-increasing order of score, and it is the list the listing answers
\* with.
C25_SortTerminatesSorted ==
    /\ [](SortMeasure >= 0)
    /\ [][SortMeasure' < SortMeasure]_vars
    /\ [](/\ Permutation(markets.assets, BuiltAssets(markets.cgPrices))
          /\ markets.pc = "done" =>
                /\ markets.assets = SortByScore(BuiltAssets(markets.cgPrices))
                /\ markets.count = Len(markets.cgPrices)
                /\ \A k \in 1..(Len(markets.assets) - 1) :
                      markets.assets[k].Score >= markets.assets[k + 1].Score)

\* C25 witness: a list of three assets, two of them with the same score and
\* one the same asset twice, has been sorted, and the sort has changed it.
C25_Witness ==
    /\ markets.pc = "done" /\ Len(markets.assets) = MaxAssets
    /\ markets.assets # BuiltAssets(markets.cgPrices)
    /\ markets.assets[1].Score > markets.assets[2].Score
    /\ markets.assets[2] = markets.assets[3]
    /\ markets.cgPrices[1] = markets.cgPrices[2]

\* The result map with the time of the store taken out of the fetched
\* responses, which two calls get at different times.
Untimed(multi) ==
    [id \in DOMAIN multi |->
        IF multi[id].Cached THEN multi[id] ELSE [multi[id] EXCEPT !.UpdatedAt = 0]]

\* Call r1 is over a list with repetitions and call r2 over the same
\* identifiers once each; both tested each identifier with the same outcome
\* on the same entry, and their batch fetches had the same outcome.
SameRunDeduplicated(r1, r2) ==
    /\ BatchDone(r1) /\ BatchDone(r2)
    /\ Range(req[r1].tokenIDs) = Range(req[r2].tokenIDs)
    /\ Len(req[r1].tokenIDs) > Len(req[r2].tokenIDs)
    /\ Len(req[r2].tokenIDs) = Cardinality(Range(req[r2].tokenIDs))
    /\ req[r1].currency = req[r2].currency
    /\ req[r1].freshIDs = req[r2].freshIDs
    /\ req[r1].staleIDs = req[r2].staleIDs
    /\ req[r1].absentIDs = req[r2].absentIDs
    /\ req[r1].cached = req[r2].cached
    /\ req[r1].fetchErr = req[r2].fetchErr
    /\ req[r1].fetched = req[r2].fetched

Is2xx(h) == ~h.doErr /\ h.status >= 200 /\ h.status <= 299

\* C27 as stated: the single-key fetcher returns an error for a response
\* that is not 2xx, for a body that does not decode and for a list of zero
\* records, and the first record for every 2xx response with a decodable
\* list that is not empty; the batch fetcher returns an error for a response
\* that is not 2xx and for a body that does not decode, and the list of
\* records, empty or not, for every other response.
C27_AsStated ==
    upstream.pc = "returned" =>
        LET h == upstream.h
            good == Is2xx(h) /\ h.decodable
        IN
        /\ upstream.fn = "fetchFromCoinGecko" =>
              IF good /\ Len(h.records) > 0
              THEN upstream.err = "" /\ upstream.price = h.records[1]
              ELSE upstream.err # ""
        /\ upstream.fn = "fetchMultipleFromCoinGecko" =>
              IF good
              THEN upstream.err = "" /\ upstream.prices = h.records
              ELSE upstream.err # ""

\* Goroutine r is inside a call.
Running(r) == ~Free(r)

\* C28: every call returns and every lock taken is given back. A goroutine
\* inside GetPrice or GetMultiplePrices gets to the return; a goroutine
\* holding the read lock or the write lock gets to release it; and the step
\* in which a call ends on a failed fetch leaves the mutex, the cache and
\* every other goroutine's call as they are.
C28_EveryCallReturns ==
    /\ \A r \in Reqs : Running(r) ~> (req[r].pc = "done")
    /\ \A r \in Reqs : (r \in mu.readers) ~> (r \notin mu.readers)
    /\ \A r \in Reqs : (mu.writer = r) ~> (mu.writer # r)
    /\ [][\A r \in Reqs :
            (Fetching(r) /\ req'[r].pc = "done" /\ req'[r].fetchErr # "")
            => /\ mu' = mu /\ prices' = prices
               /\ \A r2 \in Reqs \ {r} : req'[r2] = req[r2]]_vars

\* C28 witness: the fetch of one call timed out and the call returned the
\* error; the other goroutine, which was inside its own fetch for the same
\* key, has stored its record and returned it; no lock is held.
C28_Witness ==
    \E r1, r2 \in Reqs :
        /\ r1 # r2 /\ req[r1].pc = "done" /\ req[r2].pc = "done"
        /\ req[r1].fetchErr = "transport" /\ req[r1].ret.err = "transport"
        /\ ~req[r1].exists /\ ~req[r2].exists
        /\ req[r2].fetchErr = "" /\ req[r2].wrote # {}
        /\ ~req[r2].ret.nil /\ req[r2].ret.err = ""
        /\ mu = [readers |-> {}, writer |-> 0]

\* C29: the clock never going back, the UpdatedAt of the entry under a key
\* never decreases: no step of any interleaving of write-backs puts an
\* entry with an earlier UpdatedAt in the place of one with a later
\* UpdatedAt, and no entry is stamped later than the clock.
C29_UpdatedAtMonotone ==
    /\ [](\A key \in DOMAIN prices : prices[key].UpdatedAt <= now)
    /\ [][/\ now' >= now
          /\ \A key \in DOMAIN prices :
                /\ key \in DOMAIN prices'
                /\ prices'[key].UpdatedAt >= prices[key].UpdatedAt]_vars

\* C29 witness: a call whose fetch returned before the clock advanced has
\* just replaced an entry that another call, whose fetch returned after it,
\* had stored in between; the new entry carries a later UpdatedAt than the
\* one it replaced.
C29_Witness ==
    \E r1, r2 \in Reqs :
        /\ r1 # r2 /\ SameKey(r1, r2)
        /\ req[r1].pc = "gp_unlock" /\ req[r2].pc = "done"
        /\ KeyOf(r2) \in req[r2].wrote
        /\ req[r1].fetchedAt < req[r2].fetchedAt
        /\ req[r2].ret.val.UpdatedAt >= req[r2].fetchedAt
        /\ prices[KeyOf(r1)].UpdatedAt > req[r2].fetchedAt

\* The identifiers the call found fresh or put into its needs-fetch list.
KnownIDs(r) == req[r].freshIDs \cup NeedIDs(r)

\* C30 as stated: whatever records the provider returns to the batch fetch,
\* every key of the map GetMultiplePrices builds and every cache key the
\* call writes belongs to an identifier the call found fresh or put into its
\* needs-fetch list, and an identifier entered with cached=true is in the
\* returned map with cached=true.
C30_AsStated ==
    \A r \in Reqs : req[r].op = "GetMultiplePrices" =>
        /\ DOMAIN req[r].multi \subseteq KnownIDs(r)
        /\ req[r].wrote \subseteq
              {CacheKey(id, req[r].currency) : id \in KnownIDs(r)}
        /\ KnownIDs(r) \subseteq Range(req[r].tokenIDs)
        /\ req[r].pc = "done" =>
              \A id \in req[r].freshIDs :
                  id \in DOMAIN req[r].multi /\ req[r].multi[id].Cached

\* C31 as stated: for one key under concurrent requests, the record of a
\* fetch that was issued and answered earlier never takes the place of the
\* entry built from the record of a fetch answered later: no GetPrice call
\* has just written its record, stamped with the time of the write, over
\* the entry of another call whose fetch, issued no earlier, was answered at
\* a later time with another record.
C31_AsStated ==
    \A r1, r2 \in Reqs :
        ~(/\ r1 # r2 /\ SameKey(r1, r2)
          /\ req[r1].pc = "gp_unlock"
          /\ req[r2].pc = "done" /\ KeyOf(r2) \in req[r2].wrote
          /\ req[r1].checkedAt <= req[r2].checkedAt
          /\ req[r1].fetchedAt < req[r2].fetchedAt
          /\ req[r1].price # req[r2].price
          /\ prices[KeyOf(r1)] =
                EntryOf(req[r1].price, req[r1].currency, now)
          /\ now > req[r1].fetchedAt)

\* C32 as stated: a GetPrice call that returns a response returns one with
\* ID and Currency equal to its arguments, and every entry of the map of a
\* GetMultiplePrices call carries its map key as ID and the call's currency
\* as Currency, whatever strings the identifiers and currencies are and
\* whatever calls came before.
C32_AsStated ==
    \A r \in Reqs :
        /\ (req[r].op = "GetPrice" /\ req[r].pc = "done" /\ ~req[r].ret.nil) =>
              /\ req[r].ret.val.ID = req[r].tokenID
              /\ req[r].ret.val.Currency = req[r].currency
        /\ req[r].op = "GetMultiplePrices" =>
              \A k \in DOMAIN req[r].multi :
                  /\ req[r].multi[k].ID = k
                  /\ req[r].multi[k].Currency = req[r].currency

====
